---- MODULE Spec2Model ----
(***************************************************************************)
(* Model of mmpy_bot/plugins/base.py: Plugin, HelpPlugin, FunctionInfo,    *)
(* generate_plugin_help and PluginManager, together with the registration  *)
(* decorators, descriptor matching and event routing they rely on.         *)
(*                                                                         *)
(* Strings that the code inspects character by character (patterns,        *)
(* message texts, categories) are sequences of one-character strings.      *)
(***************************************************************************)
EXTENDS Integers, Sequences, FiniteSets, TLC

\* ------------------------------------------------------------------ bounds
MaxPlugins == 2      \* longest plugin list handed to PluginManager(...)
MaxOps == 3          \* manager operations performed in one behaviour
MaxPool == 2         \* tasks the thread pool holds at once in the model

\* ------------------------------------------------------------ basic values
None == "None"

\* No exception pending
NoError == [type |-> None, plugin |-> None, function_type |-> None]

Range(s) == {s[i] : i \in DOMAIN s}

\* ord() of the characters that occur in the model's strings
Ord ==
  "!" :> 33 @@ "$" :> 36 @@ "(" :> 40 @@ ")" :> 41 @@ "*" :> 42 @@ "-" :> 45
    @@ "." :> 46 @@ "[" :> 91 @@ "^" :> 94 @@ "a" :> 97 @@ "b" :> 98
    @@ "d" :> 100 @@ "e" :> 101 @@ "g" :> 103 @@ "h" :> 104 @@ "k" :> 107
    @@ "l" :> 108 @@ "m" :> 109 @@ "o" :> 111 @@ "p" :> 112 @@ "s" :> 115
    @@ "w" :> 119 @@ "x" :> 120

\* s < t for character sequences that agree before position i
RECURSIVE StrLessFrom(_, _, _)
StrLessFrom(s, t, i) ==
  IF i > Len(t) THEN FALSE
  ELSE IF i > Len(s) THEN TRUE
  ELSE IF Ord[s[i]] < Ord[t[i]] THEN TRUE
  ELSE IF Ord[s[i]] > Ord[t[i]] THEN FALSE
  ELSE StrLessFrom(s, t, i + 1)

\* str.__lt__ on character sequences (lexicographic by ord)
StrLess(s, t) == StrLessFrom(s, t, 1)

\* "".join(chars): a character sequence as one string
RECURSIVE Join(_)
Join(s) == IF s = <<>> THEN "" ELSE Head(s) \o Join(Tail(s))

\* str.lstrip(chars): drop leading characters that belong to chars
RECURSIVE lstrip(_, _)
lstrip(s, chars) ==
  IF s # <<>> /\ Head(s) \in chars THEN lstrip(Tail(s), chars) ELSE s

\* ------------------------------------------------- plugin classes (inputs)
\* Plugin instances available to the application assembler, with their class.
\* fake1 and fake2 are two instances of the same class, and so are help1 and
\* help2.
PluginClass ==
  "fake1" :> "FakePlugin" @@ "fake2" :> "FakePlugin"
    @@ "help1" :> "HelpPlugin" @@ "help2" :> "HelpPlugin"
    @@ "bad" :> "BadPlugin"

PluginIds == DOMAIN PluginClass

\* A handler descriptor as the decorators leave it at class-definition time.
\* metadata is the dict of extra keyword arguments, a set of <<key, value>>.
Descriptor(kind, pattern, function, coro, mention, direct, users, metadata, doc) ==
  [kind |-> kind, matcher |-> pattern, function |-> function,
   is_coroutine |-> coro, needs_mention |-> mention, direct_only |-> direct,
   allowed_users |-> users, metadata |-> metadata, docstring |-> doc,
   siblings |-> <<>>, plugin |-> None]

help_pattern == <<"^", "h", "e", "l", "p", "$">>
channel_help_pattern == <<"^", "!", "h", "e", "l", "p", "$">>

\* Class-level descriptors: one object per declaration, shared by every
\* instance of the declaring class.
ClassDescriptors ==
  [d \in {"FakePlugin.my_function", "FakePlugin.direct_function",
          "FakePlugin.my_async_function", "FakePlugin.my_async_function.2",
          "FakePlugin.webhook_listener", "FakePlugin.hello",
          "FakePlugin.reply_direct", "FakePlugin.usage", "HelpPlugin.help",
          "BadPlugin.alpha", "BadPlugin.broken"} |->
     CASE d = "FakePlugin.my_function" ->
            Descriptor("message", <<"p">>, "my_function", FALSE,
                       TRUE, FALSE, {}, {}, "my_function doc")
       [] d = "FakePlugin.direct_function" ->
            Descriptor("message", <<"d">>, "direct_function", FALSE,
                       FALSE, TRUE, {"admin"}, {}, "")
       [] d = "FakePlugin.my_async_function" ->
            [Descriptor("message", <<"a", "a">>, "my_async_function", TRUE,
                        FALSE, TRUE, {}, {<<"category", <<"m">>>>}, "async doc")
               EXCEPT !.siblings = <<"FakePlugin.my_async_function.2">>]
       [] d = "FakePlugin.my_async_function.2" ->
            Descriptor("message", <<"a">>, "my_async_function", TRUE,
                       FALSE, FALSE, {}, {<<"category", <<"m">>>>}, "async doc")
       [] d = "FakePlugin.webhook_listener" ->
            Descriptor("webhook", <<"w">>, "webhook_listener", FALSE,
                       FALSE, FALSE, {}, {}, "webhook doc")
       [] d = "FakePlugin.hello" ->
            Descriptor("message", <<"^", "p">>, "hello", TRUE,
                       FALSE, FALSE, {}, {}, "hello doc")
       [] d = "FakePlugin.reply_direct" ->
            Descriptor("message", <<"^", "d", "(", ".", "*", ")">>,
                       "reply_direct", TRUE, FALSE, FALSE, {}, {}, "")
       [] d = "FakePlugin.usage" ->
            Descriptor("message", <<"h", "e", "l", "p", "$">>, "usage", FALSE,
                       FALSE, FALSE, {}, {}, "usage doc")
       [] d = "HelpPlugin.help" ->
            Descriptor("message", help_pattern, "help", TRUE,
                       TRUE, FALSE, {}, {}, "Shows this help information.")
       [] d = "BadPlugin.alpha" ->
            Descriptor("message", <<"x">>, "alpha", FALSE,
                       FALSE, FALSE, {}, {}, "")
       [] d = "BadPlugin.broken" ->
            Descriptor("other", <<"x">>, "broken", FALSE,
                       FALSE, FALSE, {}, {}, "")]

\* dir(plugin): attribute names in sorted order; a name that is no handler
\* descriptor maps to None.
ClassAttributes ==
  [c \in {"FakePlugin", "HelpPlugin", "BadPlugin"} |->
     CASE c = "FakePlugin" ->
            << <<"direct_function", "FakePlugin.direct_function">>,
               <<"docstring", None>>,
               <<"hello", "FakePlugin.hello">>,
               <<"my_async_function", "FakePlugin.my_async_function">>,
               <<"my_function", "FakePlugin.my_function">>,
               <<"reply_direct", "FakePlugin.reply_direct">>,
               <<"usage", "FakePlugin.usage">>,
               <<"webhook_listener", "FakePlugin.webhook_listener">> >>
       [] c = "HelpPlugin" ->
            << <<"direct_help", None>>,
               <<"help", "HelpPlugin.help">> >>
       [] c = "BadPlugin" ->
            << <<"alpha", "BadPlugin.alpha">>,
               <<"broken", "BadPlugin.broken">>,
               <<"docstring", None>> >>]

\* ------------------------------------------------------------------- state
VARIABLES
  plugins,            \* PluginManager.plugins
  plugin_state,       \* per Plugin instance: driver, plugin_manager, settings, ...
  functions,          \* every Function object: its fields, siblings and .plugin
  message_listeners,  \* PluginManager.message_listeners (insertion-ordered)
  webhook_listeners,  \* PluginManager.webhook_listeners (insertion-ordered)
  raised,             \* exception that ended the last manager operation, or None
  initialized,        \* number of initialize_manager calls that returned normally
  init_pos,           \* index of the plugin the running initialize_manager call
                      \* handles next; 0 when no call is running
  init_settings,      \* settings argument of the running initialize_manager call
  discovered,         \* functions the registration loop has walked so far
  threadpool,         \* tasks submitted to driver.threadpool, not yet finished
  calls,              \* plugin methods the last manager operation invoked:
                      \* call_function for a routed event, on_start / on_stop
                      \* for start() / stop(), in call order
  returned,           \* value returned by the last manager operation, behind
                      \* the name of the operation; for get_help_string also
                      \* the lines the string is made of
  caught,             \* handler failures caught at the boundary of the
                      \* ingestion loop so far
  ops                 \* manager operations performed so far

vars == <<plugins, plugin_state, functions, message_listeners,
          webhook_listeners, raised, initialized, init_pos, init_settings,
          discovered, threadpool, calls, returned, caught, ops>>

\* Plugin.__init__
NewPlugin ==
  [driver |-> None, plugin_manager |-> None, settings |-> None, help |-> None,
   initialize_calls |-> 0, on_start_calls |-> 0, on_stop_calls |-> 0]

\* Settings objects the assembler may pass
SettingsValues == {[RESPOND_CHANNEL_HELP |-> b] : b \in BOOLEAN}

\* Settings tried for a plugin list: RESPOND_CHANNEL_HELP is read by
\* HelpPlugin.initialize only, so both values are tried when the list holds a
\* HelpPlugin and the default otherwise
SettingsFor(ps) ==
  IF \E i \in DOMAIN ps : PluginClass[ps[i]] = "HelpPlugin"
    THEN SettingsValues
    ELSE {[RESPOND_CHANNEL_HELP |-> FALSE]}

\* Plugin lists PluginManager(...) is constructed with: lists of distinct
\* plugin instances.  Two instances of one class are interchangeable, so the
\* second instance is listed only behind the first.
PluginLists ==
  {ps \in UNION {[1..n -> PluginIds] : n \in 0..MaxPlugins} :
     /\ \A i, j \in DOMAIN ps : ps[i] = ps[j] => i = j
     /\ \A i \in DOMAIN ps :
          /\ ps[i] = "fake2" => \E j \in 1..(i - 1) : ps[j] = "fake1"
          /\ ps[i] = "help2" => \E j \in 1..(i - 1) : ps[j] = "help1"}

\* ------------------------------------------------------------ registration
\* listen_to(pattern)(target) applied to a target that already is a Function:
\* a fresh sibling sharing the callable is appended to the target's siblings
\* and the target itself is returned.
listen_to(fns, pattern, target) ==
  LET fresh == target \o "." \o ToString(Len(fns[target].siblings) + 2)
      sibling == [fns[target] EXCEPT !.matcher = pattern,
                                     !.needs_mention = FALSE,
                                     !.direct_only = FALSE,
                                     !.allowed_users = {},
                                     !.metadata = {},
                                     !.siblings = <<>>,
                                     !.plugin = None]
  IN [functions |-> [d \in DOMAIN fns \cup {fresh} |->
                       IF d = fresh THEN sibling
                       ELSE IF d = target
                         THEN [fns[d] EXCEPT !.siblings = Append(@, fresh)]
                       ELSE fns[d]],
      result |-> target]

\* getattr(plugin, name): the instance attribute if one was assigned, else the
\* class attribute.  attr is a <<name, class value>> pair of ClassAttributes.
GetAttr(pstate, p, attr) ==
  IF attr[1] = "help" /\ pstate[p].help # None THEN pstate[p].help ELSE attr[2]

\* Plugin.initialize: store the three references
Plugin_initialize(st, p, settings) ==
  [st EXCEPT !.plugin_state[p].driver = "driver",
             !.plugin_state[p].plugin_manager = "manager",
             !.plugin_state[p].settings = settings,
             !.plugin_state[p].initialize_calls = @ + 1]

\* HelpPlugin.initialize: Plugin.initialize, then the deferred registration of
\* the channel help pattern
HelpPlugin_initialize(st, p, settings) ==
  LET base == Plugin_initialize(st, p, settings)
      cur == GetAttr(base.plugin_state, p, <<"help", "HelpPlugin.help">>)
      reg == listen_to(base.functions, channel_help_pattern, cur)
  IN IF settings.RESPOND_CHANNEL_HELP
       THEN [base EXCEPT !.functions = reg.functions,
                         !.plugin_state[p].help = reg.result]
       ELSE base

\* plugin.initialize(driver, self, settings), dispatched on the plugin's class
initialize(st, p, settings) ==
  IF PluginClass[p] = "HelpPlugin"
    THEN HelpPlugin_initialize(st, p, settings)
    ELSE Plugin_initialize(st, p, settings)

\* defaultdict(list)[key].append(f) on an insertion-ordered dict
BucketAppend(table, key, f) ==
  IF \E i \in DOMAIN table : table[i].key = key
    THEN [i \in DOMAIN table |->
            IF table[i].key = key
              THEN [table[i] EXCEPT !.functions = Append(@, f)]
              ELSE table[i]]
    ELSE Append(table, [key |-> key, functions |-> <<f>>])

\* Body of the innermost loop of initialize_manager for one function
RegisterFunction(st, p, f) ==
  LET owned == [st EXCEPT !.functions[f].plugin = p,
                          !.discovered = @ + 1]
  IN CASE owned.functions[f].kind = "message" ->
            [owned EXCEPT !.message_listeners =
                            BucketAppend(@, owned.functions[f].matcher, f)]
       [] owned.functions[f].kind = "webhook" ->
            [owned EXCEPT !.webhook_listeners =
                            BucketAppend(@, owned.functions[f].matcher, f)]
       [] OTHER ->
            [owned EXCEPT !.raised =
                            [type |-> "TypeError", plugin |-> PluginClass[p],
                             function_type |-> owned.functions[f].kind]]

\* for function in [attribute] + attribute.siblings: ...
RECURSIVE RegisterFunctions(_, _, _)
RegisterFunctions(st, p, fs) ==
  IF fs = <<>> \/ st.raised # NoError THEN st
  ELSE RegisterFunctions(RegisterFunction(st, p, Head(fs)), p, Tail(fs))

\* for attribute in dir(plugin): ... ; non-Function attributes are skipped
RECURSIVE RegisterAttributes(_, _, _)
RegisterAttributes(st, p, attrs) ==
  IF attrs = <<>> \/ st.raised # NoError THEN st
  ELSE LET attribute == GetAttr(st.plugin_state, p, Head(attrs))
       IN IF attribute = None
            THEN RegisterAttributes(st, p, Tail(attrs))
            ELSE RegisterAttributes(
                   RegisterFunctions(st, p,
                     <<attribute>> \o st.functions[attribute].siblings),
                   p, Tail(attrs))

\* One iteration of "for plugin in self.plugins": plugin.initialize(...), then
\* the registration of every listener function of the plugin
InitializePlugin(st, p, settings) ==
  RegisterAttributes(initialize(st, p, settings), p,
                     ClassAttributes[PluginClass[p]])

\* The whole loop of initialize_manager over the plugin list ps; it ends at
\* the first exception
RECURSIVE InitializePlugins(_, _, _)
InitializePlugins(st, ps, settings) ==
  IF ps = <<>> \/ st.raised # NoError THEN st
  ELSE InitializePlugins(InitializePlugin(st, Head(ps), settings),
                         Tail(ps), settings)

\* dict.__getitem__ of the defaultdict(list) tables: looking up a missing
\* key inserts it with an empty list
BucketLookup(table, key) ==
  IF \E i \in DOMAIN table : table[i].key = key
    THEN table
    ELSE Append(table, [key |-> key, functions |-> <<>>])

\* ------------------------------------------------------------------- help
\* split_docstring(...)[0] of a handler: the first line of its docstring
function_docheader(fns, f) == fns[f].docstring

\* dict.get(key, default) on a metadata dict
MetadataGet(metadata, key, default) ==
  IF \E kv \in metadata : kv[1] = key
    THEN (CHOOSE kv \in metadata : kv[1] = key)[2]
    ELSE default

\* FunctionInfo that takes direct from needs_mention and mention from
\* direct_only
FunctionInfo_swaps_flags(fns, pattern, f) ==
  [help_type |-> IF fns[f].kind = "message" THEN "message" ELSE "webhook",
   location |-> PluginClass[fns[f].plugin],
   function |-> f,
   pattern |-> pattern,
   function_docheader |-> function_docheader(fns, f),
   direct |-> IF fns[f].kind = "message" THEN fns[f].needs_mention ELSE FALSE,
   mention |-> IF fns[f].kind = "message" THEN fns[f].direct_only ELSE FALSE,
   metadata |-> fns[f].metadata]

\* One FunctionInfo for a listener found under the bucket key pattern
FunctionInfo(fns, pattern, f) ==
  [help_type |-> IF fns[f].kind = "message" THEN "message" ELSE "webhook",
   location |-> PluginClass[fns[f].plugin],
   function |-> f,
   pattern |-> pattern,
   function_docheader |-> function_docheader(fns, f),
   direct |-> IF fns[f].kind = "message" THEN fns[f].direct_only ELSE FALSE,
   mention |-> IF fns[f].kind = "message" THEN fns[f].needs_mention ELSE FALSE,
   metadata |-> fns[f].metadata]

\* for function in functions: plug_help.append(FunctionInfo(...))
RECURSIVE BucketHelp(_, _, _)
BucketHelp(fns, pattern, fs) ==
  IF fs = <<>> THEN <<>>
  ELSE <<FunctionInfo(fns, pattern, Head(fs))>> \o BucketHelp(fns, pattern, Tail(fs))

\* generate_plugin_help(listeners): one FunctionInfo per listener, in the
\* iteration order of the dict and of each bucket
RECURSIVE generate_plugin_help(_, _)
generate_plugin_help(fns, listeners) ==
  IF listeners = <<>> THEN <<>>
  ELSE BucketHelp(fns, Head(listeners).key, Head(listeners).functions)
         \o generate_plugin_help(fns, Tail(listeners))

\* get_help that forgets the webhook table
get_help_of_messages_only(fns, ml, wl) ==
  generate_plugin_help(fns, ml)

\* PluginManager.get_help on given tables
get_help_of(fns, ml, wl) ==
  generate_plugin_help(fns, ml) \o generate_plugin_help(fns, wl)

\* PluginManager.get_help()
get_help == get_help_of(functions, message_listeners, webhook_listeners)

\* help_type as characters, for comparison inside the sort key
HelpTypeChars(t) ==
  IF t = "message" THEN <<"m", "e", "s", "s", "a", "g", "e">>
  ELSE <<"w", "e", "b", "h", "o", "o", "k">>

\* custom_sort that compares the patterns as written
custom_sort_keeps_prefix(rec) ==
  <<MetadataGet(rec.metadata, "category", <<>>),
    HelpTypeChars(rec.help_type),
    rec.pattern>>

\* custom_sort(rec): (category or "", help_type, pattern.lstrip("^[(-"))
custom_sort(rec) ==
  <<MetadataGet(rec.metadata, "category", <<>>),
    HelpTypeChars(rec.help_type),
    lstrip(rec.pattern, {"^", "[", "(", "-"})>>

\* tuple.__lt__ on two sort keys
KeyLess(k1, k2) ==
  IF k1[1] # k2[1] THEN StrLess(k1[1], k2[1])
  ELSE IF k1[2] # k2[2] THEN StrLess(k1[2], k2[2])
  ELSE StrLess(k1[3], k2[3])

\* sorted() calls the key function once per element and sorts the pairs
\* <<key, element>> by key
RECURSIVE Keyed(_)
Keyed(recs) ==
  IF recs = <<>> THEN <<>>
  ELSE << <<custom_sort(Head(recs)), Head(recs)>> >> \o Keyed(Tail(recs))

\* Stable insertion: the pair goes after every pair whose key is not greater
RECURSIVE SortedInsert(_, _)
SortedInsert(sorted, pair) ==
  IF sorted = <<>> THEN <<pair>>
  ELSE IF KeyLess(pair[1], Head(sorted)[1])
    THEN <<pair>> \o sorted
  ELSE <<Head(sorted)>> \o SortedInsert(Tail(sorted), pair)

\* The pairs sorted by key, a stable sort
RECURSIVE SortedFrom(_, _)
SortedFrom(acc, pairs) ==
  IF pairs = <<>> THEN acc
  ELSE SortedFrom(SortedInsert(acc, Head(pairs)), Tail(pairs))

\* The elements of the sorted pairs
RECURSIVE Unkeyed(_)
Unkeyed(pairs) ==
  IF pairs = <<>> THEN <<>> ELSE <<Head(pairs)[2]>> \o Unkeyed(Tail(pairs))

\* sorted(recs, key=custom_sort)
sorted(recs) == Unkeyed(SortedFrom(<<>>, Keyed(recs)))

\* h.metadata.get("category"): {} stands for None, {c} for the value c
CategoryOf(h) ==
  IF \E kv \in h.metadata : kv[1] = "category"
    THEN {MetadataGet(h.metadata, "category", <<>>)}
    ELSE {}

\* The grave accent of the Markdown code spans.  A TLA+ string literal cannot
\* hold that character, so the model writes it as a tilde.
Tick == "~"

\* The two scope markers, each inside a code span
StarMarker == Tick \o "(" \o "*" \o ")" \o Tick

PlusMarker == Tick \o "(+)" \o Tick

\* The three f-strings of the handler line, for the texts put in the two
\* marker places
LineWith(h, first, second) ==
  LET cmd == Join(MetadataGet(h.metadata, "human_description", h.pattern))
      prefix == "- " \o Tick \o cmd \o Tick \o " " \o first \o " " \o second
  IN IF h.help_type = "webhook"
       THEN prefix \o " - (webhook) " \o h.function_docheader \o "\n"
     ELSE IF h.function_docheader = ""
       THEN prefix \o "\n"
     ELSE prefix \o " - " \o h.function_docheader \o "\n"

\* The line printed for one handler
HandlerLine(h) ==
  LET direct == IF h.direct THEN StarMarker ELSE ""
      mention == IF h.mention THEN PlusMarker ELSE ""
  IN LineWith(h, direct, mention)

\* The category header printed when the category changes
CategoryLine(category) ==
  "Category " \o Tick
    \o (IF category = {} THEN "uncategorized"
        ELSE Join(CHOOSE c \in category : TRUE))
    \o Tick \o ":\n"

\* Body of the for loop of get_help_string: the lines printed for the sorted
\* records hs, given the category of the previous record.  Each line keeps
\* what it was printed for: the FunctionInfo, or the category of the header.
RECURSIVE HelpLines(_, _)
HelpLines(hs, old_category) ==
  IF hs = <<>> THEN <<>>
  ELSE LET category == CategoryOf(Head(hs))
       IN (IF category # old_category
             THEN <<[kind |-> "category", text |-> CategoryLine(category),
                     of |-> category]>>
             ELSE <<>>)
          \o <<[kind |-> "handler", text |-> HandlerLine(Head(hs)),
                of |-> Head(hs)]>>
          \o HelpLines(Tail(hs), category)

RECURSIVE JoinLines(_)
JoinLines(lines) ==
  IF lines = <<>> THEN "" ELSE Head(lines).text \o JoinLines(Tail(lines))

HelpHeader ==
  "### The following functions have been registered:\n\n"
    \o "###### " \o StarMarker \o " require the use of "
    \o Tick \o "@botname" \o Tick \o ", "
    \o PlusMarker \o " can only be used in direct message\n"

\* The lines get_help_string() appends below its header for a manager whose
\* get_help() returns recs
get_help_lines_of(recs) == HelpLines(sorted(recs), {})

\* The string get_help_string() returns when it appended lines to the header
get_help_string_from(lines) == HelpHeader \o JoinLines(lines)

\* HelpPlugin.get_help_string() for a manager whose get_help() returns recs
get_help_string_of(recs) == get_help_string_from(get_help_lines_of(recs))

\* ---------------------------------------------------------------- routing
\* Inbound events handed over by the transport
MessageEvent(text, mentioned, direct, sender) ==
  [text |-> text, mentioned |-> mentioned, direct |-> direct, sender |-> sender]

MessageEvents ==
  {MessageEvent(<<"p", "d">>, TRUE, FALSE, "admin"),
   MessageEvent(<<"d", "a", "a">>, FALSE, TRUE, "guest")}

WebhookEvents == [webhook_id : {<<"w">>}]

\* Tail of the pattern that captures the rest of the text: (.*)
CaptureRest == <<"(", ".", "*", ")">>

EndsWith(s, suffix) ==
  /\ Len(s) >= Len(suffix)
  /\ SubSeq(s, Len(s) - Len(suffix) + 1, Len(s)) = suffix

\* A compiled pattern: optional ^ anchor, literal text, then either an optional
\* $ anchor or one trailing capture group (.*)
Compile(pattern) ==
  LET anchored == pattern # <<>> /\ Head(pattern) = "^"
      body == IF anchored THEN Tail(pattern) ELSE pattern
      capture == EndsWith(body, CaptureRest)
      body2 == IF capture THEN SubSeq(body, 1, Len(body) - 4) ELSE body
      to_end == ~capture /\ body2 # <<>> /\ body2[Len(body2)] = "$"
  IN [anchored |-> anchored, capture |-> capture, to_end |-> to_end,
      literal |-> IF to_end THEN SubSeq(body2, 1, Len(body2) - 1) ELSE body2]

\* Offsets at which the compiled pattern matches inside text
MatchOffsets(pattern, text) ==
  LET c == Compile(pattern)
      n == Len(c.literal)
  IN {i \in 1..(Len(text) - n + 1) :
        /\ SubSeq(text, i, i + n - 1) = c.literal
        /\ c.anchored => i = 1
        /\ c.to_end => i + n - 1 = Len(text)}

\* matches(text): whether the pattern matches, and the captured groups of the
\* leftmost match
Match(pattern, text) ==
  LET c == Compile(pattern)
      offs == MatchOffsets(pattern, text)
      first == CHOOSE i \in offs : \A j \in offs : i <= j
  IN IF offs = {} THEN [matched |-> FALSE, groups |-> <<>>]
     ELSE [matched |-> TRUE,
           groups |-> IF c.capture
                        THEN <<SubSeq(text, first + Len(c.literal), Len(text))>>
                        ELSE <<>>]

\* Scope check of a message descriptor against a message event
ScopeOk(fns, f, event) ==
  /\ fns[f].needs_mention => event.mentioned
  /\ fns[f].direct_only => event.direct
  /\ fns[f].allowed_users # {} => event.sender \in fns[f].allowed_users

\* Handlers whose callable raises when it is run for the event being routed
FailingSets == {{}, {"hello", "my_function"}, {"webhook_listener"}}

\* The callables the calls cs were made for
Callables(fns, cs) == {fns[cs[i].function].function : i \in DOMAIN cs}

\* What running the callable of descriptor function does in this dispatch
Outcome(fns, run, function) ==
  IF fns[function].function \in run.failing THEN "raised" ELSE "returned"

\* call_function that handles coroutine handlers only and drops the others
call_function_coroutines_only(fns, run, self, function, event, groups) ==
  IF fns[function].is_coroutine
    THEN [run EXCEPT !.calls =
            Append(@, [self |-> self, function |-> function, event |-> event,
                       groups |-> groups, how |-> "await",
                       outcome |-> Outcome(fns, run, function)])]
    ELSE run

\* call_function that hands a blocking handler to the pool twice
call_function_submits_twice(fns, run, self, function, event, groups) ==
  IF fns[function].is_coroutine
    THEN [run EXCEPT !.calls =
            Append(@, [self |-> self, function |-> function, event |-> event,
                       groups |-> groups, how |-> "await",
                       outcome |-> Outcome(fns, run, function)])]
    ELSE [run EXCEPT !.calls =
            Append(@, [self |-> self, function |-> function, event |-> event,
                       groups |-> groups, how |-> "add_task",
                       outcome |-> "returned"]),
                     !.threadpool =
            @ \o << [function |-> function, event |-> event, groups |-> groups],
                    [function |-> function, event |-> event, groups |-> groups] >>]

\* call_function that runs every handler in place, blocking ones included
call_function_runs_in_place(fns, run, self, function, event, groups) ==
  [run EXCEPT !.calls =
     Append(@, [self |-> self, function |-> function, event |-> event,
                groups |-> groups, how |-> "await",
                outcome |-> Outcome(fns, run, function)])]

\* Plugin.call_function(function, event, groups) on the plugin self.
\* run is the record of the calls made so far, of the thread pool and of the
\* callables that raise in this dispatch.  An awaited coroutine that raises
\* makes call_function raise; add_task returns without running the handler.
call_function(fns, run, self, function, event, groups) ==
  IF fns[function].is_coroutine
    THEN [run EXCEPT !.calls =
            Append(@, [self |-> self, function |-> function, event |-> event,
                       groups |-> groups, how |-> "await",
                       outcome |-> Outcome(fns, run, function)])]
    ELSE [run EXCEPT !.calls =
            Append(@, [self |-> self, function |-> function, event |-> event,
                       groups |-> groups, how |-> "add_task",
                       outcome |-> "returned"]),
                     !.threadpool =
            Append(@, [function |-> function, event |-> event,
                       groups |-> groups])]

\* Number of calls among cs that ended with an exception
Raised(cs) == Cardinality({i \in DOMAIN cs : cs[i].outcome = "raised"})

\* Dispatch to the descriptors of one bucket whose scope check passes.  Every
\* dispatch is independent: a call that raises is caught and logged at the
\* loop boundary and the remaining descriptors are still invoked.
\* Dispatch that gives up the event at the first call that raises
RECURSIVE RouteBucket_stops_at_failure(_, _, _, _, _, _)
RouteBucket_stops_at_failure(fns, run, fs, event, groups, scoped) ==
  IF fs = <<>> \/ Raised(run.calls) > 0 THEN run
  ELSE RouteBucket_stops_at_failure(
         fns,
         IF scoped => ScopeOk(fns, Head(fs), event)
           THEN call_function(fns, run, fns[Head(fs)].plugin, Head(fs),
                              event, groups)
           ELSE run,
         Tail(fs), event, groups, scoped)

RECURSIVE RouteBucket(_, _, _, _, _, _)
RouteBucket(fns, run, fs, event, groups, scoped) ==
  IF fs = <<>> THEN run
  ELSE RouteBucket(
         fns,
         IF scoped => ScopeOk(fns, Head(fs), event)
           THEN call_function(fns, run, fns[Head(fs)].plugin, Head(fs),
                              event, groups)
           ELSE run,
         Tail(fs), event, groups, scoped)

\* For every bucket of the table: match its key, dispatch to its descriptors
RECURSIVE RouteTable(_, _, _, _, _, _)
RouteTable(fns, run, table, event, text, scoped) ==
  IF table = <<>> THEN run
  ELSE LET m == Match(Head(table).key, text)
       IN RouteTable(
            fns,
            IF m.matched
              THEN RouteBucket(fns, run, Head(table).functions, event,
                               m.groups, scoped)
              ELSE run,
            Tail(table), event, text, scoped)

\* The manager-visible state as one record, with no exception pending
ManagerState ==
  [functions |-> functions, plugin_state |-> plugin_state,
   message_listeners |-> message_listeners,
   webhook_listeners |-> webhook_listeners, raised |-> NoError,
   discovered |-> discovered]

\* State of a process in which a manager has just been constructed
FreshState ==
  [functions |-> ClassDescriptors,
   plugin_state |-> [p \in PluginIds |-> NewPlugin],
   message_listeners |-> <<>>, webhook_listeners |-> <<>>,
   raised |-> NoError, discovered |-> 0]

NoSettings == [RESPOND_CHANNEL_HELP |-> FALSE]

\* PluginManager.__init__ on a plugin list chosen by the assembler
Init ==
  /\ plugins \in PluginLists
  /\ plugin_state = FreshState.plugin_state
  /\ functions = FreshState.functions
  /\ message_listeners = <<>>
  /\ webhook_listeners = <<>>
  /\ raised = NoError
  /\ initialized = 0
  /\ init_pos = 0
  /\ init_settings = NoSettings
  /\ discovered = 0
  /\ threadpool = <<>>
  /\ calls = <<>>
  /\ returned = <<"__init__", None>>
  /\ caught = 0
  /\ ops = 0

\* A caller enters PluginManager.initialize_manager(driver, settings); with an
\* empty plugin list the call returns at once
initialize_manager ==
  \E settings \in SettingsFor(plugins) :
    /\ init_pos = 0
    /\ ops < MaxOps
    /\ ops' = ops + 1
    /\ raised' = NoError
    /\ calls' = <<>>
    /\ returned' = <<"initialize_manager", None>>
    /\ IF plugins = <<>>
         THEN /\ initialized' = initialized + 1
              /\ UNCHANGED <<init_pos, init_settings>>
         ELSE /\ init_pos' = 1
              /\ init_settings' = settings
              /\ UNCHANGED initialized
    /\ UNCHANGED <<plugins, plugin_state, functions, message_listeners,
                   webhook_listeners, discovered, threadpool,
                 caught>>

\* One iteration of the plugin loop of initialize_manager.  An exception ends
\* the call; after the last plugin the call returns normally.
initialize_manager_loop ==
  /\ init_pos \in DOMAIN plugins
  /\ LET st == InitializePlugin(ManagerState, plugins[init_pos], init_settings)
         done == st.raised # NoError \/ init_pos = Len(plugins)
     IN /\ functions' = st.functions
        /\ plugin_state' = st.plugin_state
        /\ message_listeners' = st.message_listeners
        /\ webhook_listeners' = st.webhook_listeners
        /\ discovered' = st.discovered
        /\ raised' = st.raised
        /\ init_pos' = IF done THEN 0 ELSE init_pos + 1
        /\ init_settings' = IF done THEN NoSettings ELSE init_settings
        /\ initialized' = IF done /\ st.raised = NoError
                            THEN initialized + 1 ELSE initialized
  /\ UNCHANGED <<plugins, threadpool, calls, returned, caught, ops>>

\* routeMessage(event): dispatch a message event to every matching descriptor
route_message ==
  \E event \in MessageEvents, failing \in FailingSets :
    LET run == RouteTable(functions,
                          [calls |-> <<>>, threadpool |-> threadpool,
                           failing |-> failing],
                          message_listeners, event, event.text, TRUE)
    IN /\ init_pos = 0
       /\ ops < MaxOps
       /\ Len(run.threadpool) <= MaxPool
       /\ failing # {} => failing \cap Callables(functions, run.calls) # {}
       /\ ops' = ops + 1
       /\ calls' = run.calls
       /\ threadpool' = run.threadpool
       /\ caught' = caught + Raised(run.calls)
       /\ raised' = NoError
       /\ returned' = <<"route_message", event, failing>>
       /\ UNCHANGED <<plugins, plugin_state, functions, message_listeners,
                      webhook_listeners, initialized, init_pos, init_settings,
                      discovered>>

\* routeWebhook(event): dispatch a webhook event by its webhook id
route_webhook ==
  \E event \in WebhookEvents, failing \in FailingSets :
    LET run == RouteTable(functions,
                          [calls |-> <<>>, threadpool |-> threadpool,
                           failing |-> failing],
                          webhook_listeners, event, event.webhook_id, FALSE)
    IN /\ init_pos = 0
       /\ ops < MaxOps
       /\ Len(run.threadpool) <= MaxPool
       /\ failing # {} => failing \cap Callables(functions, run.calls) # {}
       /\ ops' = ops + 1
       /\ calls' = run.calls
       /\ threadpool' = run.threadpool
       /\ caught' = caught + Raised(run.calls)
       /\ raised' = NoError
       /\ returned' = <<"route_webhook", event, failing>>
       /\ UNCHANGED <<plugins, plugin_state, functions, message_listeners,
                      webhook_listeners, initialized, init_pos, init_settings,
                      discovered>>

\* A worker of driver.threadpool finishes one of the submitted tasks; whether
\* the handler returned or raised stays inside the pool
finish_task ==
  \E i \in DOMAIN threadpool :
    /\ threadpool' = SubSeq(threadpool, 1, i - 1)
                       \o SubSeq(threadpool, i + 1, Len(threadpool))
    /\ UNCHANGED <<plugins, plugin_state, functions, message_listeners,
                   webhook_listeners, raised, initialized, init_pos,
                   init_settings, discovered, calls, returned, ops,
                 caught>>

\* Count one more on_start / on_stop call for every plugin of the list
RECURSIVE CallHook(_, _, _)
CallHook(pstate, ps, start) ==
  IF ps = <<>> THEN pstate
  ELSE CallHook(
         IF start
           THEN [pstate EXCEPT ![Head(ps)].on_start_calls = @ + 1]
           ELSE [pstate EXCEPT ![Head(ps)].on_stop_calls = @ + 1],
         Tail(ps), start)

\* The on_start / on_stop calls of one start() / stop(), in call order
HookCalls(ps, hook) == [i \in DOMAIN ps |-> [self |-> ps[i], hook |-> hook]]

\* PluginManager.start()
start ==
  /\ init_pos = 0
  /\ ops < MaxOps
  /\ ops' = ops + 1
  /\ plugin_state' = CallHook(plugin_state, plugins, TRUE)
  /\ raised' = NoError
  /\ calls' = HookCalls(plugins, "on_start")
  /\ returned' = <<"start", None>>
  /\ UNCHANGED <<plugins, functions, message_listeners, webhook_listeners,
                 initialized, init_pos, init_settings, discovered, threadpool,
                 caught>>

\* PluginManager.stop()
stop ==
  /\ init_pos = 0
  /\ ops < MaxOps
  /\ ops' = ops + 1
  /\ plugin_state' = CallHook(plugin_state, plugins, FALSE)
  /\ raised' = NoError
  /\ calls' = HookCalls(plugins, "on_stop")
  /\ returned' = <<"stop", None>>
  /\ UNCHANGED <<plugins, functions, message_listeners, webhook_listeners,
                 initialized, init_pos, init_settings, discovered, threadpool,
                 caught>>

\* get_help that empties every message bucket it has walked
get_help_effect_drains_buckets(st) ==
  [st EXCEPT !.message_listeners =
     [i \in DOMAIN @ |-> [@[i] EXCEPT !.functions = <<>>]]]

\* What evaluating get_help() leaves behind in the manager, its plugins and
\* the descriptors: generate_plugin_help walks listeners.items() and reads
\* attributes; it assigns to nothing but its own result list
get_help_effect(st) == st

\* A caller evaluates manager.get_help()
get_help_call ==
  /\ init_pos = 0
  /\ ops < MaxOps
  /\ ops' = ops + 1
  /\ raised' = NoError
  /\ calls' = <<>>
  /\ returned' = <<"get_help", get_help>>
  /\ LET st == get_help_effect(ManagerState)
     IN /\ plugin_state' = st.plugin_state
        /\ functions' = st.functions
        /\ message_listeners' = st.message_listeners
        /\ webhook_listeners' = st.webhook_listeners
  /\ UNCHANGED <<plugins, initialized, init_pos, init_settings, discovered,
                 threadpool, caught>>

\* A caller evaluates get_help_string() on a HelpPlugin of the plugin list;
\* on a plugin that has no plugin_manager yet the attribute access fails
get_help_string ==
  \E p \in Range(plugins) :
    /\ PluginClass[p] = "HelpPlugin"
    /\ init_pos = 0
    /\ ops < MaxOps
    /\ ops' = ops + 1
    /\ calls' = <<>>
    /\ IF plugin_state[p].plugin_manager = None
         THEN /\ raised' = [type |-> "AttributeError", plugin |-> "HelpPlugin",
                            function_type |-> None]
              /\ returned' = <<"get_help_string", None, <<>>>>
              /\ UNCHANGED <<plugin_state, functions, message_listeners,
                             webhook_listeners>>
         ELSE /\ raised' = NoError
              /\ LET lines == get_help_lines_of(get_help)
                 IN returned' = <<"get_help_string",
                                  get_help_string_from(lines), lines>>
              /\ LET st == get_help_effect(ManagerState)
                 IN /\ plugin_state' = st.plugin_state
                    /\ functions' = st.functions
                    /\ message_listeners' = st.message_listeners
                    /\ webhook_listeners' = st.webhook_listeners
    /\ UNCHANGED <<plugins, initialized, init_pos, init_settings, discovered,
                   threadpool, caught>>

\* Patterns a caller looks up with table[pattern]
LookupKeys == {<<"e">>}

\* manager.message_listeners[key]
lookup_message_listeners ==
  \E key \in LookupKeys :
    /\ init_pos = 0
    /\ ops < MaxOps
    /\ ops' = ops + 1
    /\ message_listeners' = BucketLookup(message_listeners, key)
    /\ raised' = NoError
    /\ calls' = <<>>
    /\ returned' = <<"lookup", key>>
    /\ UNCHANGED <<plugins, plugin_state, functions, webhook_listeners,
                   initialized, init_pos, init_settings, discovered, threadpool,
                 caught>>

\* manager.webhook_listeners[key]
lookup_webhook_listeners ==
  \E key \in LookupKeys :
    /\ init_pos = 0
    /\ ops < MaxOps
    /\ ops' = ops + 1
    /\ webhook_listeners' = BucketLookup(webhook_listeners, key)
    /\ raised' = NoError
    /\ calls' = <<>>
    /\ returned' = <<"lookup", key>>
    /\ UNCHANGED <<plugins, plugin_state, functions, message_listeners,
                   initialized, init_pos, init_settings, discovered, threadpool,
                 caught>>

\* The methods class PluginManager defines
PluginManagerMethods ==
  {"__init__", "initialize_manager", "start", "stop", "get_help"}

\* list(manager): iter() needs __iter__ or __getitem__ on the class and
\* raises TypeError for an object that has neither
list_manager(ps) ==
  IF {"__iter__", "__getitem__"} \cap PluginManagerMethods # {}
    THEN [raised |-> NoError, value |-> ps]
    ELSE [raised |-> [type |-> "TypeError", plugin |-> None,
                      function_type |-> None],
          value |-> None]

\* A caller evaluates list(manager)
iterate ==
  /\ init_pos = 0
  /\ ops < MaxOps
  /\ ops' = ops + 1
  /\ raised' = list_manager(plugins).raised
  /\ calls' = <<>>
  /\ returned' = <<"list", list_manager(plugins).value>>
  /\ UNCHANGED <<plugins, plugin_state, functions, message_listeners,
                 webhook_listeners, initialized, init_pos, init_settings,
                 discovered, threadpool, caught>>

Next ==
  \/ initialize_manager
  \/ initialize_manager_loop
  \/ route_message
  \/ route_webhook
  \/ finish_task
  \/ start
  \/ stop
  \/ get_help_call
  \/ get_help_string
  \/ lookup_message_listeners
  \/ lookup_webhook_listeners
  \/ iterate

Spec == Init /\ [][Next]_vars

\* ============================================================== properties
\* No initialize_manager call is running
Idle == init_pos = 0

\* Exactly one initialize_manager call was made and it returned normally
InitializedOnce == initialized = 1 /\ Idle

\* No initialize_manager call has been made yet
NeverInitialized ==
  /\ initialized = 0
  /\ Idle
  /\ \A p \in PluginIds : plugin_state[p].initialize_calls = 0

\* The plugin list names no plugin instance twice
DistinctPlugins ==
  \A i, j \in DOMAIN plugins : plugins[i] = plugins[j] => i = j

\* [attribute] + attribute.siblings
Chain(a) == <<a>> \o functions[a].siblings

\* The handler descriptors that are attributes of plugin p
HandlerAttributes(p) ==
  {GetAttr(plugin_state, p, ClassAttributes[PluginClass[p]][i]) :
     i \in DOMAIN ClassAttributes[PluginClass[p]]} \ {None}

\* Every descriptor reachable from an attribute of p: the attribute itself and
\* each of its siblings
ReachableFrom(p) == UNION {Range(Chain(a)) : a \in HandlerAttributes(p)}

\* Positions <<i, j>> of a table at which descriptor f is stored
Positions(table, f) ==
  UNION {{<<i, j>> : j \in {k \in DOMAIN table[i].functions :
                                 table[i].functions[k] = f}} :
           i \in DOMAIN table}

\* Positions of f inside the bucket whose key is key
PositionsUnder(table, key, f) ==
  {ij \in Positions(table, f) : table[ij[1]].key = key}

\* Every descriptor stored somewhere in a table
Stored(table) ==
  UNION {Range(table[i].functions) : i \in DOMAIN table}

\* C1: after initialize_manager completes, every descriptor reachable from a
\* configured plugin has an owning plugin, sits only in the table of its own
\* kind, exactly once in the bucket keyed by its own pattern, and no bucket
\* holds a descriptor of another pattern.  Stated for plugin lists of distinct
\* instances, which is all a refutation needs.
C1_RegisteredExactlyOnce ==
  (InitializedOnce /\ DistinctPlugins) =>
    /\ \A p \in Range(plugins) : \A f \in ReachableFrom(p) :
         /\ functions[f].plugin # None
         /\ functions[f].kind = "message" =>
              /\ Cardinality(PositionsUnder(message_listeners,
                                            functions[f].matcher, f)) = 1
              /\ f \notin Stored(webhook_listeners)
         /\ functions[f].kind = "webhook" =>
              /\ Cardinality(PositionsUnder(webhook_listeners,
                                            functions[f].matcher, f)) = 1
              /\ f \notin Stored(message_listeners)
    /\ \A table \in {message_listeners, webhook_listeners} :
         \A i \in DOMAIN table : \A f \in Range(table[i].functions) :
           functions[f].matcher = table[i].key

\* Table entries (table, bucket, position) whose descriptor wraps callable c
EntriesOf(c) ==
  {<<"message", ij>> :
     ij \in UNION {Positions(message_listeners, f) :
                     f \in {g \in Stored(message_listeners) :
                              functions[g].function = c}}}
  \cup
  {<<"webhook", ij>> :
     ij \in UNION {Positions(webhook_listeners, f) :
                     f \in {g \in Stored(webhook_listeners) :
                              functions[g].function = c}}}

\* The descriptor stored at a table entry
EntryFunction(e) ==
  IF e[1] = "message"
    THEN message_listeners[e[2][1]].functions[e[2][2]]
    ELSE webhook_listeners[e[2][1]].functions[e[2][2]]

\* C2: a handler that carries N stacked registrations and is discovered on a
\* plugin has, after initialize_manager, exactly N registered descriptors, one
\* under each declared pattern, all owned by the plugin it was discovered on.
\* Stated for plugin lists of distinct instances.
C2_StackedRegistrations ==
  (InitializedOnce /\ DistinctPlugins) =>
    \A i \in DOMAIN plugins : \A a \in HandlerAttributes(plugins[i]) :
      /\ Cardinality(EntriesOf(functions[a].function)) = Len(Chain(a))
      /\ \A k \in DOMAIN Chain(a) :
           Chain(a)[k] \in Stored(message_listeners) \cup Stored(webhook_listeners)
      /\ \A e \in EntriesOf(functions[a].function) :
           /\ functions[EntryFunction(e)].plugin = plugins[i]
           /\ functions[EntryFunction(e)].function = functions[a].function

\* C3: get_help() is empty before initialize_manager is called; once
\* initialize_manager has returned, it has one entry per discovered message or
\* webhook descriptor, siblings included.
C3_HelpLength ==
  /\ NeverInitialized => get_help = <<>>
  /\ (initialized >= 1 /\ Idle) => Len(get_help) = discovered

\* get_help() was called on an initialized manager that holds a stacked handler
\* and a webhook handler
C3_Witness ==
  /\ InitializedOnce
  /\ returned[1] = "get_help"
  /\ Len(returned[2]) = discovered
  /\ \E i \in DOMAIN returned[2] : returned[2][i].help_type = "webhook"
  /\ \E i \in DOMAIN returned[2] :
       returned[2][i].function = "FakePlugin.my_async_function.2"

\* Number of handler invocations the last routed event started for f
Invocations(f) == Cardinality({i \in DOMAIN calls : calls[i].function = f})

\* C4: routing a message event invokes a registered descriptor exactly when
\* its scope check passes and its own pattern matches the text, once per table
\* entry; all such descriptors are invoked, no other is, and an event that
\* matches nothing is a no-op without error.
C4_RouteInvokesExactlyEligible ==
  returned[1] = "route_message" =>
    /\ raised = NoError
    /\ \A f \in DOMAIN functions :
         Invocations(f) =
           IF /\ ScopeOk(functions, f, returned[2])
              /\ Match(functions[f].matcher, returned[2].text).matched
             THEN Cardinality(Positions(message_listeners, f))
             ELSE 0

\* A message event was routed that two descriptors of different patterns
\* received, while a third matched the text but failed its scope check and a
\* fourth did not match
C4_Witness ==
  /\ returned[1] = "route_message"
  /\ Cardinality({calls[i].function : i \in DOMAIN calls}) >= 2
  /\ \E f \in Stored(message_listeners) :
       /\ Match(functions[f].matcher, returned[2].text).matched
       /\ ~ScopeOk(functions, f, returned[2])
       /\ Invocations(f) = 0
  /\ \E f \in Stored(message_listeners) :
       /\ ~Match(functions[f].matcher, returned[2].text).matched
       /\ Invocations(f) = 0

\* C5: once a descriptor has an owning plugin, no later step changes it.
C5_OwnerNeverReassigned ==
  [][\A f \in DOMAIN functions :
       functions[f].plugin # None =>
         functions'[f].plugin = functions[f].plugin]_vars

\* C6: once initialize_manager has completed, no later step changes either
\* routing table.
C6_TablesFrozen ==
  [][initialized >= 1 =>
       /\ message_listeners' = message_listeners
       /\ webhook_listeners' = webhook_listeners]_vars

\* C7: an initialize_manager call that ends with the TypeError for an
\* unsupported descriptor leaves the manager not Ready and leaves no
\* descriptor of that call in either routing table.
C7_FailedInitLeavesNothing ==
  (raised.type = "TypeError" /\ raised.function_type # None) =>
    /\ initialized = 0
    /\ Stored(message_listeners) = {}
    /\ Stored(webhook_listeners) = {}

\* C8: no plugin has its initialize accepted more than once.  Stated for
\* plugin lists of distinct instances.
C8_InitializeOnce ==
  DistinctPlugins =>
    \A p \in PluginIds : plugin_state[p].initialize_calls <= 1

\* Every order in which the plugins of the list could have been passed
Orders(ps) ==
  {[i \in DOMAIN ps |-> ps[f[i]]] :
     f \in {g \in [DOMAIN ps -> DOMAIN ps] :
              \A i, j \in DOMAIN ps : g[i] = g[j] => i = j}}

\* get_help_string() of a manager constructed with the list ps and
\* initialized once with settings
HelpStringFor(ps, settings) ==
  LET st == InitializePlugins(FreshState, ps, settings)
  IN get_help_string_of(get_help_of(st.functions, st.message_listeners,
                                    st.webhook_listeners))

\* C9: the string get_help_string returns is the one it returns for any other
\* order of the same plugins in the constructor's list.
C9_HelpStringOrderIndependent ==
  (/\ InitializedOnce
   /\ DistinctPlugins
   /\ returned[1] = "get_help_string"
   /\ raised = NoError) =>
    \A q \in Orders(plugins) :
      returned[2] = HelpStringFor(q, plugin_state[plugins[1]].settings)

\* The text a routed event is matched on
EventText(e) == IF "text" \in DOMAIN e THEN e.text ELSE e.webhook_id

\* The pool task call_function submits for a call
TaskOf(c) == [function |-> c.function, event |-> c.event, groups |-> c.groups]

\* The pool tasks of the blocking calls among cs, in order
RECURSIVE TasksOf(_)
TasksOf(cs) ==
  IF cs = <<>> THEN <<>>
  ELSE (IF Head(cs).how = "add_task" THEN <<TaskOf(Head(cs))>> ELSE <<>>)
         \o TasksOf(Tail(cs))

\* C10: every handler call of a routed event is made in exactly one way:
\* a coroutine handler is awaited in place, any other handler is submitted
\* exactly once to the thread pool with the event and the captured groups, and
\* the routing step ends with these tasks still pending behind the tasks that
\* were pending before.
C10_CallFunctionModes ==
  [][(returned'[1] \in {"route_message", "route_webhook"} /\ ops' = ops + 1) =>
       /\ \A i \in DOMAIN calls' :
            /\ calls'[i].how = IF functions[calls'[i].function].is_coroutine
                                 THEN "await" ELSE "add_task"
            /\ calls'[i].event = returned'[2]
            /\ calls'[i].groups =
                 Match(functions[calls'[i].function].matcher,
                       EventText(returned'[2])).groups
            /\ calls'[i].self = functions[calls'[i].function].plugin
       /\ threadpool' = threadpool \o TasksOf(calls')]_vars

\* A blocking handler submitted for an earlier event is still pending in the
\* pool while a later, different event has been routed and its coroutine
\* handler awaited
C10_Witness ==
  /\ returned[1] = "route_message"
  /\ threadpool # <<>>
  /\ threadpool[1].event # returned[2]
  /\ \E i \in DOMAIN calls :
       /\ calls[i].how = "await"
       /\ calls[i].groups # <<>>

\* The callable that descriptor f wraps
CallableOf(f) == functions[f].function

\* C11: a call_function call made for a routed event on an initialized plugin
\* fails exactly when the handler is a coroutine and the handler itself fails;
\* a blocking handler that fails never makes call_function fail.
C11_CallFunctionFailure ==
  returned[1] \in {"route_message", "route_webhook"} =>
    \A i \in DOMAIN calls :
      plugin_state[calls[i].self].driver # None =>
        (calls[i].outcome = "raised"
           <=> /\ functions[calls[i].function].is_coroutine
               /\ CallableOf(calls[i].function) \in returned[3])

\* One event was routed to a failing coroutine handler and to a failing
\* blocking handler of an initialized plugin: the first call_function raised,
\* the second returned with its task pending in the pool
C11_Witness ==
  /\ returned[1] = "route_message"
  /\ \E i, j \in DOMAIN calls :
       /\ plugin_state[calls[i].self].driver # None
       /\ CallableOf(calls[i].function) \in returned[3]
       /\ calls[i].how = "await"
       /\ calls[i].outcome = "raised"
       /\ CallableOf(calls[j].function) \in returned[3]
       /\ calls[j].how = "add_task"
       /\ calls[j].outcome = "returned"
       /\ TaskOf(calls[j]) \in Range(threadpool)

\* The number of calls the routing of the last event owes descriptor f
Owed(f) ==
  IF returned[1] = "route_message"
    THEN IF /\ ScopeOk(functions, f, returned[2])
            /\ Match(functions[f].matcher, returned[2].text).matched
           THEN Cardinality(Positions(message_listeners, f))
           ELSE 0
    ELSE IF Match(functions[f].matcher, returned[2].webhook_id).matched
           THEN Cardinality(Positions(webhook_listeners, f))
           ELSE 0

HookOrder == [i \in DOMAIN calls |-> calls[i].self]

\* C13: start() calls on_start and stop() calls on_stop on every plugin of the
\* list in list order, and over the life of the manager no plugin receives
\* on_start or on_stop more than once.
C13_HooksExactlyOnce ==
  /\ \A p \in PluginIds :
       /\ plugin_state[p].on_start_calls <= 1
       /\ plugin_state[p].on_stop_calls <= 1
  /\ returned[1] = "start" =>
       /\ HookOrder = plugins
       /\ \A p \in Range(plugins) : plugin_state[p].on_start_calls = 1
  /\ returned[1] = "stop" =>
       /\ HookOrder = plugins
       /\ \A p \in Range(plugins) : plugin_state[p].on_stop_calls = 1

\* The routing table that holds descriptors of the kind of f
TableOf(f) ==
  IF functions[f].kind = "message" THEN message_listeners ELSE webhook_listeners

\* The entries of a get_help() result that describe f under pattern
InfosOf(infos, f, pattern) ==
  {i \in DOMAIN infos : infos[i].function = f /\ infos[i].pattern = pattern}

\* C14: every FunctionInfo that get_help() returns mirrors its descriptor:
\* help_type is the descriptor's kind, direct and mention are the direct_only
\* and needs_mention flags of a message descriptor and false for a webhook
\* descriptor, pattern is the key of a bucket the descriptor is stored under
\* (one entry per such storage), and location is the class name of the
\* descriptor's owning plugin.
C14_FunctionInfoMirrorsDescriptor ==
  returned[1] = "get_help" =>
    \A i \in DOMAIN returned[2] :
      LET h == returned[2][i]
          f == h.function
      IN /\ functions[f].kind \in {"message", "webhook"}
         /\ h.help_type = functions[f].kind
         /\ h.direct = (functions[f].kind = "message" /\ functions[f].direct_only)
         /\ h.mention = (functions[f].kind = "message" /\ functions[f].needs_mention)
         /\ Cardinality(InfosOf(returned[2], f, h.pattern))
              = Cardinality(PositionsUnder(TableOf(f), h.pattern, f))
         /\ Cardinality(PositionsUnder(TableOf(f), h.pattern, f)) >= 1
         /\ functions[f].plugin # None
         /\ h.location = PluginClass[functions[f].plugin]

\* get_help() returned entries for a direct-only handler, for a handler that
\* needs a mention and for a webhook handler
C14_Witness ==
  /\ returned[1] = "get_help"
  /\ \E i, j, k \in DOMAIN returned[2] :
       /\ returned[2][i].direct /\ ~returned[2][i].mention
       /\ returned[2][j].mention /\ ~returned[2][j].direct
       /\ returned[2][k].help_type = "webhook"
       /\ returned[2][k].pattern = <<"w">>
       /\ returned[2][k].location = "FakePlugin"

\* C15: get_help() and get_help_string() invoke no handler callable and leave
\* both routing tables, every descriptor and every plugin's state unchanged.
C15_HelpReadsOnly ==
  [][(returned'[1] \in {"get_help", "get_help_string"} /\ ops' = ops + 1) =>
       /\ calls' = <<>>
       /\ threadpool' = threadpool
       /\ message_listeners' = message_listeners
       /\ webhook_listeners' = webhook_listeners
       /\ functions' = functions
       /\ plugin_state' = plugin_state]_vars

\* get_help_string() returned its listing for an initialized manager that
\* holds message and webhook handlers
C15_Witness ==
  /\ returned[1] = "get_help_string"
  /\ raised = NoError
  /\ calls = <<>>
  /\ Stored(message_listeners) # {}
  /\ Stored(webhook_listeners) # {}

\* C16: iterating the manager yields its configured plugins, each once, in
\* the order of the plugin list, before and after initialize_manager.
C16_IterationYieldsPlugins ==
  returned[1] = "list" =>
    /\ raised = NoError
    /\ returned[2] = plugins

\* The handler lines among the lines of a get_help_string() result, in order
HandlerLines(lines) == SelectSeq(lines, LAMBDA l : l.kind = "handler")

\* The composite key of a listed handler: its category, none counting as the
\* empty text; 0 for a message and 1 for a webhook handler; its pattern
\* without leading ^ [ ( - characters
ListingKey(h) ==
  <<IF CategoryOf(h) = {} THEN <<>> ELSE CHOOSE c \in CategoryOf(h) : TRUE,
    IF h.help_type = "message" THEN 0 ELSE 1,
    lstrip(h.pattern, {"^", "[", "(", "-"})>>

\* Key k1 comes strictly before key k2
ListedBefore(k1, k2) ==
  \/ StrLess(k1[1], k2[1])
  \/ k1[1] = k2[1] /\ k1[2] < k2[2]
  \/ k1[1] = k2[1] /\ k1[2] = k2[2] /\ StrLess(k1[3], k2[3])

\* C17: the handler lines of get_help_string() stand in non-decreasing order
\* of (category, none first; kind, message before webhook; pattern without
\* leading ^ [ ( - characters), and there is exactly one handler line per
\* entry of get_help().
C17_HelpLinesSorted ==
  (returned[1] = "get_help_string" /\ raised = NoError) =>
    \A hl \in {HandlerLines(returned[3])}, infos \in {get_help} :
      /\ \A i, j \in DOMAIN hl :
           i < j => ~ListedBefore(ListingKey(hl[j].of), ListingKey(hl[i].of))
      /\ Len(hl) = Len(infos)
      /\ \A k \in DOMAIN infos :
           Cardinality({i \in DOMAIN hl : hl[i].of = infos[k]})
             = Cardinality({i \in DOMAIN infos : infos[i] = infos[k]})

\* get_help_string() listed handlers of two categories and a webhook handler,
\* and two handlers whose patterns as written stand in the opposite order of
\* their stripped patterns
C17_Witness ==
  /\ returned[1] = "get_help_string"
  /\ raised = NoError
  /\ LET hl == HandlerLines(returned[3])
     IN /\ \E i, j \in DOMAIN hl :
             /\ i < j
             /\ ListingKey(hl[i].of)[1] = ListingKey(hl[j].of)[1]
             /\ hl[i].of.help_type = hl[j].of.help_type
             /\ StrLess(hl[j].of.pattern, hl[i].of.pattern)
        /\ \E i, j \in DOMAIN hl :
             CategoryOf(hl[i].of) = {} /\ CategoryOf(hl[j].of) # {}
        /\ \E i \in DOMAIN hl : hl[i].of.help_type = "webhook"

\* The name a category header shows for a category
CategoryName(category) ==
  IF category = {} THEN "uncategorized" ELSE Join(CHOOSE c \in category : TRUE)

\* C18: in get_help_string(), every maximal run of consecutive handlers of one
\* category has exactly one category header, immediately before the first
\* handler line of the run and naming that category ("uncategorized" for
\* handlers without one), the first run of the listing included.
C18_HeaderPerCategoryRun ==
  (returned[1] = "get_help_string" /\ raised = NoError) =>
    LET lines == returned[3]
    IN /\ \A i \in DOMAIN lines :
            lines[i].kind = "handler" =>
              /\ i > 1
              /\ lines[i - 1].kind = "handler" =>
                   CategoryOf(lines[i - 1].of) = CategoryOf(lines[i].of)
              /\ lines[i - 1].kind = "category" =>
                   lines[i - 1].text =
                     "Category " \o Tick \o CategoryName(CategoryOf(lines[i].of))
                       \o Tick \o ":\n"
       /\ \A i \in DOMAIN lines :
            lines[i].kind = "category" =>
              /\ i < Len(lines)
              /\ lines[i + 1].kind = "handler"
              /\ i > 1 =>
                   /\ lines[i - 1].kind = "handler"
                   /\ CategoryOf(lines[i - 1].of) # CategoryOf(lines[i + 1].of)

\* The legend line of the listing: the star marker stands for handlers that
\* need a mention of the bot, the plus marker for direct-message-only handlers
Legend ==
  "###### " \o StarMarker \o " require the use of "
    \o Tick \o "@botname" \o Tick \o ", "
    \o PlusMarker \o " can only be used in direct message\n"

\* The handler lines for h that carry the star marker exactly if h needs a
\* mention and the plus marker exactly if h is direct-only, in either place
LegendLines(h) ==
  LET star == IF h.mention THEN StarMarker ELSE ""
      plus == IF h.direct THEN PlusMarker ELSE ""
  IN {LineWith(h, star, plus), LineWith(h, plus, star)}

\* C19: the markers on every handler line of get_help_string() agree with the
\* legend at the top of the same string: the star marker is there exactly if
\* the handler needs a mention of the bot, the plus marker exactly if it is
\* direct-message-only, and a webhook line carries neither.
C19_MarkersMatchLegend ==
  (returned[1] = "get_help_string" /\ raised = NoError) =>
    /\ HelpHeader = "### The following functions have been registered:\n\n"
                      \o Legend
    /\ \A i \in DOMAIN returned[3] :
         returned[3][i].kind = "handler" =>
           /\ returned[3][i].text \in LegendLines(returned[3][i].of)
           /\ returned[3][i].of.help_type = "webhook" =>
                returned[3][i].text = LineWith(returned[3][i].of, "", "")

\* Entries of the message table under the key pattern that hold a descriptor
\* of the help handler owned by plugin p
HelpEntries(p, pattern) ==
  {ij \in UNION {PositionsUnder(message_listeners, pattern, f) :
                    f \in Stored(message_listeners)} :
     LET f == message_listeners[ij[1]].functions[ij[2]]
     IN functions[f].function = "help" /\ functions[f].plugin = p}

\* C20: once the manager is initialized, every HelpPlugin of its list has the
\* channel help handler registered exactly once if its settings enable
\* RESPOND_CHANNEL_HELP and not at all otherwise, and the help handler
\* registered exactly once in both cases, whatever other HelpPlugin instances
\* were initialized before it.
C20_HelpHandlersPerInstance ==
  InitializedOnce =>
    \A p \in Range(plugins) :
      PluginClass[p] = "HelpPlugin" =>
        /\ Cardinality(HelpEntries(p, help_pattern)) = 1
        /\ Cardinality(HelpEntries(p, channel_help_pattern)) =
             IF plugin_state[p].settings.RESPOND_CHANNEL_HELP THEN 1 ELSE 0

\* C21: lifecycle hooks respect the order Uninitialized -> Started -> Stopped:
\* a plugin has received on_start only if its initialize has completed, and
\* has received on_stop only if it has received on_start.  The call counters
\* of a plugin never decrease, so a hook invoked out of order shows in the
\* state right after the start() / stop() that invoked it.
C21_LifecycleOrder ==
  \A p \in Range(plugins) :
    /\ plugin_state[p].on_start_calls >= 1 =>
         plugin_state[p].initialize_calls >= 1
    /\ plugin_state[p].on_stop_calls >= 1 =>
         plugin_state[p].on_start_calls >= 1

====
